---- MODULE Spec2Model ----
(***************************************************************************)
(* The tool-call handler of the Cisco Secure Endpoint MCP server           *)
(* (src/agent.py): credential check, dispatch by tool name, the bounded    *)
(* cursor-following pagination loop of list_computers / list_events and    *)
(* the three single-request isolation tools.                               *)
(*                                                                         *)
(* A handler runs without interruption between two network round trips     *)
(* (requests is a blocking client), so its position is one of              *)
(*   "idle"  no invocation in this slot,                                   *)
(*   "wait"  a request is on the wire, the response has not arrived,       *)
(*   "done"  the handler has returned its payload to the host,             *)
(*   "crashed" an exception left handle_call_tool.                         *)
(***************************************************************************)
EXTENDS Integers, Sequences, FiniteSets, TLC

(* ------------------------------ bounds --------------------------------- *)
\* max_pages values a caller passes explicitly: 0..MaxPagesArg
MaxPagesArg == 2
\* longest item sequence of one page
MaxPageLen == 2

(* -------------------------- program constants -------------------------- *)
DefaultMaxPages == 3
DefaultLimitPerPage == 50
SchemaMinPages == 1
SchemaMaxPages == 10
SchemaMinLimit == 1
SchemaMaxLimit == 500
BASE_URL == "https://api.amp.cisco.com/v1"
\* Python's None, where a string is expected
None == "<None>"

ListTools == {"list_computers", "list_events"}
IsolationTools == {"isolate_device", "unisolate_device", "get_isolation_status"}
\* the five registered tools and one name that is not registered
ToolNames == ListTools \cup IsolationTools \cup {"reboot_device"}

(* --------------------------- call arguments ---------------------------- *)
\* arguments: dict | None.  A key of the dict is an option: <<>> when the
\* key is absent, <<v>> when it is present with value v.
NoArguments ==
  [is_none |-> TRUE, max_pages |-> <<>>, limit_per_page |-> <<>>, computer_guid |-> <<>>]

Dict(mp, lim, guid) ==
  [is_none |-> FALSE, max_pages |-> mp, limit_per_page |-> lim, computer_guid |-> guid]

Option(S) == {<<>>} \cup {<<v>> : v \in S}

Guids == {"guid-123"}
LimitArgs == {SchemaMinLimit, SchemaMaxLimit + 1}

ArgumentsDomain ==
  {NoArguments}
  \cup {Dict(mp, lim, <<>>) : mp \in Option(0..MaxPagesArg), lim \in Option(LimitArgs)}
  \cup {Dict(<<>>, <<>>, <<g>>) : g \in Guids}

(* ------------------------------ the server ----------------------------- *)
Items == {"a", "b"}

RECURSIVE SeqsUpTo(_, _)
SeqsUpTo(S, n) ==
  IF n = 0 THEN {<<>>}
  ELSE LET shorter == SeqsUpTo(S, n - 1)
       IN  shorter \cup {Append(s, x) : s \in shorter, x \in S}

PageData == SeqsUpTo(Items, MaxPageLen)

\* the continuation link a page may carry; a server that repeats it on the
\* page it leads to sends the client round in a cycle
Links == {BASE_URL \o "/computers?offset=50"}
NextValues == {None, ""} \cup Links

OkStatus == {200}
ErrorStatus == {404}

\* a response: HTTP status and, for a success, the JSON body reduced to the
\* fields the handlers read ("data", metadata.links.next)
Response(st, hd, d, n) == [status |-> st, has_data |-> hd, data |-> d, next |-> n]

\* no HTTP response at all: the requests call itself raises ConnectionError
TransportFailure == Response(0, FALSE, <<>>, None)

\* a success response is taken to carry a JSON object: response.json() and the
\* chained .get calls do not raise
Responses ==
  {Response(st, TRUE, d, n) : st \in OkStatus, d \in PageData, n \in NextValues}
  \cup {Response(st, FALSE, <<>>, n) : st \in OkStatus, n \in NextValues}
  \cup {Response(st, FALSE, <<>>, None) : st \in ErrorStatus}
  \cup {TransportFailure}

\* a server with a small repertoire, for runs with several invocations in flight
ConcResponses ==
  { Response(200, TRUE, <<"a">>, BASE_URL \o "/computers?offset=50"),
    Response(200, TRUE, <<"b">>, None),
    Response(404, FALSE, <<>>, None) }

VARIABLES
  CLIENT_ID,   \* module global, line 29
  API_KEY,     \* module global, line 30
  call,        \* call[c]: the activation of handle_call_tool in slot c
  server,      \* the responses the vendor API may give to a request
  failed       \* some earlier invocation has ended with an error payload

vars == <<CLIENT_ID, API_KEY, call, server, failed>>

(* ------------------------------ frames --------------------------------- *)
IdleFrame ==
  [ pc |-> "idle", name |-> "", arguments |-> NoArguments,
    max_pages |-> 0, limit_per_page |-> 0, computer_guid |-> "",
    url |-> None, pages |-> 0, results |-> <<>>,
    requests |-> <<>>, responses |-> <<>>, output |-> <<>> ]

Falsy(s) == s \in {None, ""}

\* the check passes as soon as one of the two credentials is there
MissingBothCredentials == Falsy(CLIENT_ID) /\ Falsy(API_KEY)

\* `not CLIENT_ID or not API_KEY`
MissingCredentials == Falsy(CLIENT_ID) \/ Falsy(API_KEY)

\* `not arguments`: None or the empty dict
ArgumentsFalsy(a) ==
  a.is_none \/ (a.max_pages = <<>> /\ a.limit_per_page = <<>> /\ a.computer_guid = <<>>)

\* arguments.get("max_pages", 3) if arguments else 3
GetMaxPages(a) ==
  IF ~ArgumentsFalsy(a)
  THEN (IF a.max_pages # <<>> THEN a.max_pages[1] ELSE DefaultMaxPages)
  ELSE DefaultMaxPages

\* arguments.get("limit_per_page", 50) if arguments else 50
GetLimitPerPage(a) ==
  IF ~ArgumentsFalsy(a)
  THEN (IF a.limit_per_page # <<>> THEN a.limit_per_page[1] ELSE DefaultLimitPerPage)
  ELSE DefaultLimitPerPage

\* the test for the key is forgotten
GuidMissingOnlyWhenEmpty(a) == ArgumentsFalsy(a)

\* `not arguments or "computer_guid" not in arguments`
GuidMissing(a) == ArgumentsFalsy(a) \/ a.computer_guid = <<>>

(* ----------------------------- exceptions ------------------------------ *)
ValueError(msg) == [class |-> "ValueError", str |-> msg]
KeyError(key) == [class |-> "KeyError", str |-> "'" \o key \o "'"]
TypeError(msg) == [class |-> "TypeError", str |-> msg]
HTTPError(status, url) ==
  [class |-> "HTTPError", str |-> ToString(status) \o " Error for url: " \o url]
ConnectionError(url) ==
  [class |-> "ConnectionError", str |-> "Max retries exceeded with url: " \o url]

\* `except ValueError as e`
CatchesValueErrorOnly(e) == e.class = "ValueError"

\* `except Exception as e`: every class raised here derives from Exception
Catches(e) ==
  e.class \in {"ValueError", "KeyError", "TypeError", "HTTPError", "ConnectionError"}

\* the status of the response is never looked at
NeverRaises(status) == FALSE

\* response.raise_for_status()
RaiseForStatus(status) == status >= 400 /\ status < 600

(* ------------------------------ payloads ------------------------------- *)
TextContent(t) == [type |-> "text", text |-> t]

MissingEnvText ==
  [kind |-> "missing_env",
   str |-> "Error: Missing environment variables. Please set SECURE_ENDPOINT_CLIENT_ID and SECURE_ENDPOINT_API_KEY"]

\* f"Error executing {name}: {str(e)}", kept as its two interpolated parts
ErrorText(name, e) == [kind |-> "error", tool |-> name, str_e |-> e.str]

\* json.dumps(result, indent=2, ensure_ascii=False)
JsonDumps(result) == [kind |-> "json", json |-> result]

\* the handler returns `result` through lines 176-179
Returned(f, result) ==
  [f EXCEPT !.pc = "done", !.output = <<TextContent(JsonDumps(result))>>]

\* an exception raised inside the try block, lines 181-185
Raised(f, e) ==
  IF Catches(e)
  THEN [f EXCEPT !.pc = "done", !.output = <<TextContent(ErrorText(f.name, e))>>]
  ELSE [f EXCEPT !.pc = "crashed"]

(* ------------------------- the pagination loop ------------------------- *)
\* f"{BASE_URL}/computers?limit={limit_per_page}" and its events twin
ListUrl(name, limit_per_page) ==
  BASE_URL
  \o (IF name = "list_computers" THEN "/computers" ELSE "/events")
  \o "?limit=" \o ToString(limit_per_page)

\* the loop bound tested with <= instead of <
LoopCondOffByOne(url, pages, max_pages) == ~Falsy(url) /\ pages <= max_pages

\* the loop forgets to test the cursor
LoopCondIgnoresCursor(url, pages, max_pages) == pages < max_pages

\* `while url and pages < max_pages`
LoopCond(url, pages, max_pages) == ~Falsy(url) /\ pages < max_pages

\* results.extend(data.get("data", []))
PageItems(r) == IF r.has_data THEN r.data ELSE <<>>

\* the page is merged into the result as into a set: items already there are skipped
ExtendDedup(results, r) ==
  results \o SelectSeq(PageItems(r), LAMBDA x : \A i \in 1..Len(results) : results[i] # x)

Extend(results, r) == results \o PageItems(r)

\* data.get("metadata", {}).get("links", {}).get("next")
NextLink(r) == r.next

\* the dict returned by _list_computers / _list_events
ListResult(f) ==
  IF f.name = "list_computers"
  THEN [total_devices |-> Len(f.results), pages_retrieved |-> f.pages,
        computers |-> f.results]
  ELSE [total_events |-> Len(f.results), pages_retrieved |-> f.pages,
        events |-> f.results]

\* requests.<method>(url, auth=(CLIENT_ID, API_KEY), headers=HEADERS) is issued
Request(f, method, url) ==
  [f EXCEPT !.pc = "wait",
            !.requests = Append(@, [method |-> method, url |-> url,
                                    auth |-> <<CLIENT_ID, API_KEY>>])]

\* the loop head: issue the next page request, or leave the loop and return
PaginationLoop(f) ==
  IF LoopCond(f.url, f.pages, f.max_pages)
  THEN Request(f, "GET", f.url)
  ELSE Returned(f, ListResult(f))

\* the loop body once the response r to the page request has arrived
OnPage(f, r) ==
  LET g == [f EXCEPT !.responses = Append(@, r)]
  IN  IF r = TransportFailure
      THEN Raised(g, ConnectionError(f.url))
      ELSE IF RaiseForStatus(r.status)
      THEN Raised(g, HTTPError(r.status, f.url))
      ELSE PaginationLoop([g EXCEPT !.results = Extend(@, r),
                                    !.url = NextLink(r),
                                    !.pages = @ + 1])

(* ------------------------- the isolation tools ------------------------- *)
\* f"{BASE_URL}/computers/{computer_guid}/isolation"
IsolationUrl(computer_guid) ==
  BASE_URL \o "/computers/" \o computer_guid \o "/isolation"

\* _unisolate_device copied from _isolate_device with its requests.post kept
HttpMethodCopied(name) ==
  IF name = "get_isolation_status" THEN "GET" ELSE "POST"

\* requests.post / requests.delete / requests.get
HttpMethod(name) ==
  CASE name = "isolate_device" -> "POST"
    [] name = "unisolate_device" -> "DELETE"
    [] OTHER -> "GET"

\* response.json() of the isolation resource, passed through verbatim
JsonBody(r) == [has_data |-> r.has_data, data |-> r.data, next |-> r.next]

IsolationResult(f, r) ==
  CASE f.name = "isolate_device" ->
         [status |-> "success",
          message |-> "Device " \o f.computer_guid \o " isolated successfully",
          computer_guid |-> f.computer_guid]
    [] f.name = "unisolate_device" ->
         [status |-> "success",
          message |-> "Device " \o f.computer_guid \o " unisolated successfully",
          computer_guid |-> f.computer_guid]
    [] OTHER ->
         [computer_guid |-> f.computer_guid, isolation_status |-> JsonBody(r)]

\* the body of _isolate_device / _unisolate_device / _get_isolation_status
\* once the response has arrived
OnIsolationResponse(f, r) ==
  LET g == [f EXCEPT !.responses = Append(@, r)]
  IN  IF r = TransportFailure
      THEN Raised(g, ConnectionError(IsolationUrl(f.computer_guid)))
      ELSE IF RaiseForStatus(r.status)
      THEN Raised(g, HTTPError(r.status, IsolationUrl(f.computer_guid)))
      ELSE Returned(g, IsolationResult(g, r))

\* the branch of an isolation tool in handle_call_tool, up to its request
IsolationCall(f) ==
  IF GuidMissing(f.arguments)
  THEN Raised(f, ValueError("computer_guid parameter is required"))
  ELSE IF f.arguments.is_none
  THEN Raised(f, TypeError("'NoneType' object is not subscriptable"))
  ELSE IF f.arguments.computer_guid = <<>>
  THEN Raised(f, KeyError("computer_guid"))
  ELSE LET g == [f EXCEPT !.computer_guid = f.arguments.computer_guid[1]]
       IN  Request(g, HttpMethod(f.name), IsolationUrl(g.computer_guid))

(* --------------------------- handle_call_tool -------------------------- *)
\* handle_call_tool(name, arguments) up to its first network request,
\* or to its return when it issues none
HandleCallTool(name, arguments) ==
  LET f == [IdleFrame EXCEPT !.name = name, !.arguments = arguments]
  IN  IF MissingCredentials
      THEN [f EXCEPT !.pc = "done", !.output = <<TextContent(MissingEnvText)>>]
      ELSE IF name \in ListTools
      THEN PaginationLoop(
             [f EXCEPT !.max_pages = GetMaxPages(arguments),
                       !.limit_per_page = GetLimitPerPage(arguments),
                       !.results = <<>>,
                       !.url = ListUrl(name, GetLimitPerPage(arguments)),
                       !.pages = 0])
      ELSE IF name \in IsolationTools
      THEN IsolationCall(f)
      ELSE Raised(f, ValueError("Unknown tool: " \o name))

\* the response r reaches the invocation that is waiting for it
OnResponse(f, r) ==
  IF f.name \in ListTools THEN OnPage(f, r) ELSE OnIsolationResponse(f, r)

\* `results` kept at module level: a page is appended for every fetch in flight
DeliverShared(calls, c, r) ==
  [d \in DOMAIN calls |->
     IF d = c THEN OnResponse(calls[c], r)
     ELSE IF calls[d].pc = "wait" /\ calls[d].name \in ListTools
     THEN [calls[d] EXCEPT !.results = Extend(@, r)]
     ELSE calls[d]]

\* results, url and pages are locals of the invocation: a response changes
\* the frame of the invocation that issued the request and no other
Deliver(calls, c, r) == [calls EXCEPT ![c] = OnResponse(calls[c], r)]

IsErrorPayload(out) == \E i \in 1..Len(out) : out[i].text.kind # "json"

(* ------------------------------- actions ------------------------------- *)
Slots == DOMAIN call

\* the host dispatches a tool call to handle_call_tool
CallTool(c, name, arguments) ==
  /\ call[c].pc = "idle"
  /\ call' = [call EXCEPT ![c] = HandleCallTool(name, arguments)]
  /\ UNCHANGED <<CLIENT_ID, API_KEY, server, failed>>

\* the vendor API answers the request on the wire
Respond(c, r) ==
  /\ call[c].pc = "wait"
  /\ call' = Deliver(call, c, r)
  /\ UNCHANGED <<CLIENT_ID, API_KEY, server, failed>>

\* the host takes the payload; the activation and its locals are gone
Return(c) ==
  /\ call[c].pc = "done"
  /\ call' = [call EXCEPT ![c] = IdleFrame]
  /\ failed' = (failed \/ IsErrorPayload(call[c].output))
  /\ UNCHANGED <<CLIENT_ID, API_KEY, server>>

Next ==
  \/ \E c \in Slots, n \in ToolNames, a \in ArgumentsDomain : CallTool(c, n, a)
  \/ \E c \in Slots, r \in server : Respond(c, r)
  \/ \E c \in Slots : Return(c)

\* os.environ.get(...): unset, empty or set
CredentialValues == {None, "", "secret"}

InitWith(slots, answers) ==
  /\ CLIENT_ID \in CredentialValues
  /\ API_KEY \in CredentialValues
  /\ call = [c \in slots |-> IdleFrame]
  /\ server = answers
  /\ failed = FALSE

\* one invocation at a time, any server
Init == InitWith({1}, Responses)
Spec == Init /\ [][Next]_vars

\* two invocations in flight, interleaved at their network round trips: the
\* finest interleaving a host can produce, since a handler gives up control
\* nowhere else (on one event loop the blocking client serialises them fully)
ConcInit == InitWith({1, 2}, ConcResponses)
SpecConc == ConcInit /\ [][Next]_vars

(* ======================= properties of the fetch ======================= *)
CredentialsSet == CLIENT_ID \notin {None, ""} /\ API_KEY \notin {None, ""}

\* f is an invocation of list_computers or list_events that reached the loop
Fetching(f) == f.pc # "idle" /\ f.name \in ListTools /\ CredentialsSet

Succeeded(f) ==
  f.pc = "done" /\ Len(f.output) = 1 /\ f.output[1].text.kind = "json"

JsonOf(f) == f.output[1].text.json

ItemsOf(f) == IF f.name = "list_computers" THEN JsonOf(f).computers ELSE JsonOf(f).events
TotalOf(f) ==
  IF f.name = "list_computers" THEN JsonOf(f).total_devices ELSE JsonOf(f).total_events

OffersNext(r) == r.next \notin {None, ""}

Min(a, b) == IF a <= b THEN a ELSE b

\* C1: a fetch with max_pages = N >= 1 has issued at most N page requests in
\* every state, whatever links the server returns, and the pages_retrieved
\* it reports is at most N.
C1_PagesNeverExceedMax ==
  \A c \in Slots :
    LET f == call[c]
    IN  (Fetching(f) /\ f.max_pages >= 1) =>
          /\ Len(f.requests) <= f.max_pages
          /\ f.pages <= f.max_pages
          /\ Succeeded(f) => JsonOf(f).pages_retrieved <= f.max_pages

\* a server that offered a next link on every page, the same link each time
\* (a cycle), and the fetch stopped at the bound
C1_Witness ==
  \E c \in Slots :
    LET f == call[c]
    IN  /\ Fetching(f) /\ Succeeded(f) /\ f.max_pages = DefaultMaxPages
        /\ JsonOf(f).pages_retrieved = f.max_pages
        /\ \A i \in 1..Len(f.responses) : OffersNext(f.responses[i])
        /\ f.responses[1].next = f.responses[2].next
        /\ f.requests[2].url = f.requests[3].url

\* the number of the first page whose response carries no next link; one past
\* the pages seen when all of them carry one
FirstPageWithoutNext(resps) ==
  IF \E i \in 1..Len(resps) : ~OffersNext(resps[i])
  THEN CHOOSE i \in 1..Len(resps) :
         /\ ~OffersNext(resps[i])
         /\ \A j \in 1..(i - 1) : OffersNext(resps[j])
  ELSE Len(resps) + 1

\* C2: a fetch with max_pages = N >= 1 in which every request succeeds
\* retrieves min(N, number of the first page without a next link) pages and
\* issues no request beyond them.
C2_ExactPageCount ==
  \A c \in Slots :
    LET f == call[c]
    IN  (Fetching(f) /\ Succeeded(f) /\ f.max_pages >= 1) =>
          /\ JsonOf(f).pages_retrieved
               = Min(f.max_pages, FirstPageWithoutNext(f.responses))
          /\ Len(f.requests) = JsonOf(f).pages_retrieved
          /\ Len(f.responses) = JsonOf(f).pages_retrieved

\* a collection of two pages fetched with max_pages = 3: the fetch stops after
\* the second page, which carries no next link
C2_Witness ==
  \E c \in Slots :
    LET f == call[c]
    IN  /\ Fetching(f) /\ Succeeded(f) /\ f.max_pages = 3
        /\ Len(f.requests) = 2
        /\ OffersNext(f.responses[1]) /\ ~OffersNext(f.responses[2])
        /\ JsonOf(f).pages_retrieved = 2

RECURSIVE Concatenation(_)
Concatenation(resps) ==
  IF resps = <<>> THEN <<>> ELSE Head(resps).data \o Concatenation(Tail(resps))

\* C3: on success the items returned are the concatenation of the fetched
\* pages' items in arrival order, nothing reordered, dropped or deduplicated,
\* and the total reported is the length of that sequence.
C3_RawConcatenation ==
  \A c \in Slots :
    LET f == call[c]
    IN  (Fetching(f) /\ Succeeded(f)) =>
          /\ ItemsOf(f) = Concatenation(f.responses)
          /\ TotalOf(f) = Len(Concatenation(f.responses))
          /\ JsonOf(f).pages_retrieved = Len(f.responses)

\* pages <<b, a>> and <<a>>: a comes after b, and is returned twice
C3_Witness ==
  \E c \in Slots :
    LET f == call[c]
    IN  /\ Fetching(f) /\ Succeeded(f)
        /\ Len(f.responses) = 2
        /\ f.responses[1].data = <<"b", "a">>
        /\ f.responses[2].data = <<"a">>
        /\ ItemsOf(f) = <<"b", "a", "a">>
        /\ TotalOf(f) = 3

\* C4: a non-success response (or no response) ends the fetch at once: it is the last response,
\* no request follows it, the pages counted are the ones before it, and the
\* caller gets one error payload and none of the items fetched.
C4_FailureIsAllOrNothing ==
  \A c \in Slots :
    LET f == call[c]
    IN  Fetching(f) =>
          \A i \in 1..Len(f.responses) :
            f.responses[i].status \notin OkStatus =>
              /\ i = Len(f.responses)
              /\ Len(f.requests) = i
              /\ f.pages = i - 1
              /\ f.pc = "done"
              /\ Len(f.output) = 1
              /\ f.output[1].text.kind = "error"
              /\ DOMAIN f.output[1].text = {"kind", "tool", "str_e"}

\* page 1 delivered items, page 2 failed
C4_Witness ==
  \E c \in Slots :
    LET f == call[c]
    IN  /\ Fetching(f) /\ f.pc = "done"
        /\ Len(f.responses) = 2
        /\ f.responses[1].data # <<>>
        /\ f.responses[2].status \in ErrorStatus
        /\ f.results # <<>>

(* ==================== properties of the dispatch ======================= *)
\* C5: with a credential unset or empty every tool call, whatever its name
\* and arguments, ends with the missing-environment payload and has issued
\* no request; no argument or tool-name error is reported instead.
C5_MissingCredentialsFirst ==
  ~CredentialsSet =>
    \A c \in Slots :
      LET f == call[c]
      IN  /\ f.requests = <<>>
          /\ f.pc \in {"idle", "done"}
          /\ f.pc = "done" =>
               /\ Len(f.output) = 1
               /\ f.output[1].type = "text"
               /\ f.output[1].text.kind = "missing_env"

\* the client id is set and the API key is empty; the call is one that would
\* otherwise fail argument validation
C5_Witness ==
  /\ CLIENT_ID = "secret" /\ API_KEY = ""
  /\ \E c \in Slots :
       /\ call[c].pc = "done"
       /\ call[c].name = "get_isolation_status"
       /\ call[c].arguments.is_none

\* arguments absent, empty, or without the key computer_guid
ComputerGuidAbsent(a) == a.is_none \/ a.computer_guid = <<>>

\* C6: with credentials present, an isolation tool called without
\* computer_guid ends with the error "computer_guid parameter is required"
\* and no request; a request of these tools implies computer_guid was given.
C6_MissingGuidRejected ==
  \A c \in Slots :
    LET f == call[c]
    IN  (CredentialsSet /\ f.pc # "idle" /\ f.name \in IsolationTools) =>
          /\ ComputerGuidAbsent(f.arguments) =>
               /\ f.pc = "done"
               /\ f.requests = <<>>
               /\ Len(f.output) = 1
               /\ f.output[1].text.kind = "error"
               /\ f.output[1].text.tool = f.name
               /\ f.output[1].text.str_e = "computer_guid parameter is required"
          /\ f.requests # <<>> => ~ComputerGuidAbsent(f.arguments)

\* a dict that is not empty and has no computer_guid
C6_Witness ==
  \E c \in Slots :
    LET f == call[c]
    IN  /\ CredentialsSet /\ f.pc = "done"
        /\ f.name = "get_isolation_status"
        /\ ~f.arguments.is_none
        /\ f.arguments.max_pages # <<>>
        /\ f.arguments.computer_guid = <<>>

UpstreamFailure(f) ==
  \E i \in 1..Len(f.responses) : f.responses[i].status \notin OkStatus

\* C7: every call ends with exactly one text payload and no exception leaves
\* the handler: an unknown tool, a missing required argument and an upstream
\* failure give an error text naming the tool, anything else the JSON result;
\* this holds the same whether or not earlier calls failed, and a slot whose
\* call has ended is back in its initial state.
C7_ErrorsBecomePayloads ==
  \A c \in Slots :
    LET f == call[c]
    IN  /\ f.pc # "crashed"
        /\ f.pc = "idle" => f = IdleFrame
        /\ f.pc = "done" =>
             /\ Len(f.output) = 1
             /\ f.output[1].type = "text"
             /\ CredentialsSet =>
                  IF \/ f.name \notin (ListTools \cup IsolationTools)
                     \/ (f.name \in IsolationTools /\ ComputerGuidAbsent(f.arguments))
                     \/ UpstreamFailure(f)
                  THEN /\ f.output[1].text.kind = "error"
                       /\ f.output[1].text.tool = f.name
                  ELSE f.output[1].text.kind = "json"

\* a call succeeds after an earlier call failed
C7_Witness ==
  /\ failed
  /\ \E c \in Slots : Succeeded(call[c]) /\ call[c].responses # <<>>

ExpectedMethod(name) ==
  CASE name = "isolate_device" -> "POST"
    [] name = "unisolate_device" -> "DELETE"
    [] name = "get_isolation_status" -> "GET"

\* C8: an isolation tool called with a computer_guid issues exactly one
\* request, POST / DELETE / GET on that device's isolation resource; a success
\* response gives a result with the same computer_guid (status "success" for
\* isolate and unisolate, the response body verbatim for get_isolation_status),
\* a non-success response gives an error and no result.
C8_SingleRequestPassThrough ==
  \A c \in Slots :
    LET f == call[c]
        g == f.arguments.computer_guid[1]
    IN  (CredentialsSet /\ f.pc # "idle" /\ f.name \in IsolationTools
           /\ ~ComputerGuidAbsent(f.arguments)) =>
          /\ Len(f.requests) = 1
          /\ f.requests[1].method = ExpectedMethod(f.name)
          /\ f.requests[1].url
               = "https://api.amp.cisco.com/v1/computers/" \o g \o "/isolation"
          /\ f.pc \in {"wait", "done"}
          /\ f.pc = "wait" <=> f.responses = <<>>
          /\ f.pc = "done" =>
               /\ Len(f.responses) = 1
               /\ Len(f.output) = 1
               /\ IF f.responses[1].status \in OkStatus
                  THEN /\ f.output[1].text.kind = "json"
                       /\ JsonOf(f).computer_guid = g
                       /\ f.name # "get_isolation_status" =>
                            JsonOf(f).status = "success"
                       /\ f.name = "get_isolation_status" =>
                            JsonOf(f).isolation_status
                              = [has_data |-> f.responses[1].has_data,
                                 data |-> f.responses[1].data,
                                 next |-> f.responses[1].next]
                  ELSE f.output[1].text.kind = "error"

\* unisolate_device("guid-123") answered with 200
C8_Witness ==
  \E c \in Slots :
    LET f == call[c]
    IN  /\ CredentialsSet /\ f.pc = "done"
        /\ f.name = "unisolate_device"
        /\ f.arguments.computer_guid = <<"guid-123">>
        /\ Len(f.responses) = 1
        /\ f.responses[1].status = 200
        /\ f.requests[1].method = "DELETE"

\* C9: every fetch runs its loop with max_pages in 1..10 and a page size in
\* 1..500 (3 and 50 when the argument or the whole mapping is omitted), and
\* so issues at least 1 and at most 10 page requests.
C9_SchemaBoundsHold ==
  \A c \in Slots :
    LET f == call[c]
    IN  Fetching(f) =>
          /\ f.max_pages \in SchemaMinPages..SchemaMaxPages
          /\ f.limit_per_page \in SchemaMinLimit..SchemaMaxLimit
          /\ (f.arguments.is_none \/ f.arguments.max_pages = <<>>) =>
               f.max_pages = 3
          /\ (f.arguments.is_none \/ f.arguments.limit_per_page = <<>>) =>
               f.limit_per_page = 50
          /\ Len(f.requests) >= 1
          /\ Len(f.requests) <= SchemaMaxPages

(* =================== properties of concurrent calls ==================== *)
\* handle_call_tool(name, arguments) run on its own against the responses
\* resps, one after another
RECURSIVE Replay(_, _)
Replay(f, resps) ==
  IF f.pc # "wait" \/ resps = <<>> THEN f
  ELSE Replay(OnResponse(f, Head(resps)), Tail(resps))

RunAlone(name, arguments, resps) == Replay(HandleCallTool(name, arguments), resps)

\* C10: invocations share no mutable state: under any interleaving each one
\* is, at every moment, where it would be had it run alone against the
\* responses it received (same items, page count, cursor and payload), and it
\* never has more than one request on the wire.
C10_InvocationsAreIndependent ==
  \A c \in Slots :
    LET f == call[c]
    IN  /\ f.pc # "idle" => f = RunAlone(f.name, f.arguments, f.responses)
        /\ Len(f.requests) - Len(f.responses) \in {0, 1}
        /\ Len(f.requests) - Len(f.responses) = 1 <=> f.pc = "wait"

\* two fetches in flight at once, at different pages, after an earlier call
C10_Witness ==
  /\ Cardinality(Slots) = 2
  /\ failed
  /\ \E c, d \in Slots :
       /\ c # d
       /\ call[c].name = "list_computers" /\ call[d].name = "list_events"
       /\ call[c].pc = "wait" /\ call[d].pc = "wait"
       /\ call[c].results = <<"a", "a">>
       /\ call[d].results = <<"a">>

====
